---- MODULE Spec2Model ----
(***************************************************************************)
(* The server agent's query dispatcher (src/agents/server/main.py).        *)
(* Flask serves every request on its own thread, so several invocations of *)
(* handle_query run at once over the process-wide PROTOCOL_INFOS table and *)
(* the routine store.  A request is modelled as a small process whose      *)
(* steps are the stretches of code between two blocking external calls     *)
(* (responder, classifier, synthesizer, document fetch, routine run).      *)
(***************************************************************************)
EXTENDS Integers, Sequences, FiniteSets, TLC

\* ---- bounds of the model ------------------------------------------------
NumThreads == 2        \* request threads that may be in flight at once
MaxRequests == 3       \* requests received in one run

\* ---- program constants --------------------------------------------------
NUM_CONVERSATIONS_FOR_ROUTINE == -1
TRIGGER_NUM_CALLS == 2

Threads == 1..NumThreads
Protocols == {"P1", "P2"}
None == "None"
Hashes == Protocols \cup {None}
Queries == {"hi", "bye"}
SourceLists == {<< >>, <<"S1", "S2">>}

UNKNOWN == "UNKNOWN"
ADEQUATE == "ADEQUATE"
INADEQUATE == "INADEQUATE"

NoResult == [status |-> "none", message |-> "none"]
NotSuitable == [status |-> "error", message |-> "Protocol not suitable."]
NoValidSource == [status |-> "error", message |-> "No valid protocol source provided."]
ExecFailed == [status |-> "error", message |-> "Failed to execute routine."]
ExecSucceeded == [status |-> "success", message |-> "output"]
Unhandled(what) == [status |-> "exception", message |-> what]
Responded == [status |-> "responder", message |-> "reply"]

VARIABLES
    PROTOCOL_INFOS,   \* registry: protocol hash -> [source, suitability, num_conversations]
    routines,         \* routine store: protocol hash -> implementation
    requests,         \* per thread: the request it serves and where it stands
    numReceived,      \* requests received so far
    checkCalls,       \* per protocol: calls of check_protocol_for_tools
    synthCalls        \* per protocol: calls of write_routine_for_tools

vars == <<PROTOCOL_INFOS, routines, requests, numReceived, checkCalls, synthCalls>>

\* The gateway (src/gateway.py), a separate process with its own state.
VARIABLES
    HASH_COUNTER,     \* protocol hash -> requests counted for it
    known_hashes,     \* the hashes the routine manager reports on GET /routines
    gwRequests,       \* per gateway thread: the request it serves and where it stands
    gwReceived,       \* requests the gateway received so far
    synthTasks,       \* hashes with a create_and_save_routine task still running
    createCalls       \* per hash: calls of create_and_save_routine

gwVars == <<HASH_COUNTER, known_hashes, gwRequests, gwReceived, synthTasks, createCalls>>

Idle == [pc |-> "idle", protocol_hash |-> None, protocol_sources |-> << >>,
         query |-> "hi", idx |-> 0, context |-> None, impl |-> 0,
         result |-> NoResult, calls |-> {}]

\* ---- agents/server/memory.py (not part of the sources at hand) ----------
register_new_protocol(infos, h, source) ==
    [x \in DOMAIN infos \cup {h} |->
        IF x = h THEN [source |-> source, suitability |-> UNKNOWN, num_conversations |-> 0]
        ELSE infos[x]]

has_implementation(rts, h) == h \in DOMAIN rts

get_num_conversations(infos, h) == infos[h].num_conversations

increment_num_conversations(infos, h) ==
    IF h \in DOMAIN infos
    THEN [infos EXCEPT ![h].num_conversations = @ + 1]
    ELSE infos

add_routine(rts, h, implementation) ==
    [x \in DOMAIN rts \cup {h} |-> IF x = h THEN implementation ELSE rts[x]]

\* ---- handle_query_suitable ----------------------------------------------
\* The outcome of a stretch of code: the registry it leaves and the external
\* call it blocks in next ("done": it returned `result`).
Outcome(infos, pc, context, result) ==
    [infos |-> infos, pc |-> pc, context |-> context, result |-> result]

\* handle_query_suitable without line 44
handle_query_suitable_uncounted(infos, rts, h) ==
    IF has_implementation(rts, h)
    THEN Outcome(infos, "exec", h, NoResult)
    ELSE IF get_num_conversations(infos, h) >= NUM_CONVERSATIONS_FOR_ROUTINE
         THEN Outcome(infos, "synth", h, NoResult)
         ELSE Outcome(infos, "reply", h, NoResult)

\* handle_query_suitable with the test of line 48 inverted
handle_query_suitable_never_promotes(infos, rts, h) ==
    LET infos1 == increment_num_conversations(infos, h) IN
    IF has_implementation(rts, h)
    THEN Outcome(infos1, "exec", h, NoResult)
    ELSE IF get_num_conversations(infos1, h) < NUM_CONVERSATIONS_FOR_ROUTINE
         THEN Outcome(infos1, "synth", h, NoResult)
         ELSE Outcome(infos1, "reply", h, NoResult)

\* handle_query_suitable promoting on the first conversation only
handle_query_suitable_promotes_once(infos, rts, h) ==
    LET infos1 == increment_num_conversations(infos, h) IN
    IF has_implementation(rts, h)
    THEN Outcome(infos1, "exec", h, NoResult)
    ELSE IF get_num_conversations(infos1, h) = 1
         THEN Outcome(infos1, "synth", h, NoResult)
         ELSE Outcome(infos1, "reply", h, NoResult)

handle_query_suitable(infos, rts, h) ==
    LET infos1 == increment_num_conversations(infos, h) IN
    IF has_implementation(rts, h)
    THEN Outcome(infos1, "exec", h, NoResult)
    ELSE IF get_num_conversations(infos1, h) >= NUM_CONVERSATIONS_FOR_ROUTINE
         THEN Outcome(infos1, "synth", h, NoResult)
         ELSE Outcome(infos1, "reply", h, NoResult)

\* lines 77-83: the branch on the stored verdict
branch_on_suitability(infos, rts, h) ==
    IF infos[h].suitability = ADEQUATE
    THEN handle_query_suitable(infos, rts, h)
    ELSE Outcome(infos, "done", h, NotSuitable)

\* handle_query without lines 64-65
handle_query_without_cache_lookup(infos, rts, h, sources) ==
    IF h = None
    THEN Outcome(infos, "reply", None, NoResult)
    ELSE IF h \in DOMAIN infos
    THEN IF infos[h].suitability = UNKNOWN
         THEN Outcome(infos, "check", h, NoResult)
         ELSE branch_on_suitability(infos, rts, h)
    ELSE IF Len(sources) = 0
         THEN Outcome(infos, "done", h, NoValidSource)
         ELSE Outcome(infos, "fetch", h, NoResult)

\* handle_query without lines 61-62
handle_query_without_none_test(infos, rts, h, sources) ==
    IF has_implementation(rts, h)
    THEN Outcome(infos, "exec", h, NoResult)
    ELSE IF h \in DOMAIN infos
    THEN IF infos[h].suitability = UNKNOWN
         THEN Outcome(infos, "check", h, NoResult)
         ELSE branch_on_suitability(infos, rts, h)
    ELSE IF Len(sources) = 0
         THEN Outcome(infos, "done", h, NoValidSource)
         ELSE Outcome(infos, "fetch", h, NoResult)

\* handle_query promoting a protocol it has no record of
handle_query_unregistered_promoted(infos, rts, h, sources) ==
    IF h = None
    THEN Outcome(infos, "reply", None, NoResult)
    ELSE IF has_implementation(rts, h)
    THEN Outcome(infos, "exec", h, NoResult)
    ELSE IF h \in DOMAIN infos
    THEN IF infos[h].suitability = UNKNOWN
         THEN Outcome(infos, "check", h, NoResult)
         ELSE branch_on_suitability(infos, rts, h)
    ELSE Outcome(infos, "synth", h, NoResult)

\* lines 60-94 up to the first external call
handle_query(infos, rts, h, sources) ==
    IF h = None
    THEN Outcome(infos, "reply", None, NoResult)
    ELSE IF has_implementation(rts, h)
    THEN Outcome(infos, "exec", h, NoResult)
    ELSE IF h \in DOMAIN infos
    THEN IF infos[h].suitability = UNKNOWN
         THEN Outcome(infos, "check", h, NoResult)
         ELSE branch_on_suitability(infos, rts, h)
    ELSE IF Len(sources) = 0
         THEN Outcome(infos, "done", h, NoValidSource)
         ELSE Outcome(infos, "fetch", h, NoResult)

\* lines 72-78: the classifier returned `verdict`
store_suitability(infos, h, verdict) ==
    [infos EXCEPT ![h].suitability = IF verdict THEN ADEQUATE ELSE INADEQUATE]

\* The handler returned `result`: its arguments and locals are gone, the
\* response, the protocol it was for and the calls it made stay on record.
Returned(req, result) ==
    [req EXCEPT !.pc = "done", !.result = result,
                !.protocol_sources = << >>, !.query = "hi", !.idx = 0]

\* The thread blocks in the external call `pc`.  The dispatcher reads the query
\* for the last time when it hands it to the classifier and the source list for
\* the last time in the fetch loop; past those points they are not kept.
Blocked(req, pc, context, implementation) ==
    [req EXCEPT !.pc = pc,
                !.context = context,
                !.query = IF pc = "check" THEN @ ELSE "hi",
                !.protocol_sources = IF pc = "fetch" THEN @ ELSE << >>,
                !.idx = IF pc = "fetch" THEN @ + 1 ELSE 0,
                !.impl = implementation,
                !.calls = @ \cup {pc}]

\* The thread moves on to what `out` says; entering an external call counts it.
\* `marks` logs what the call that just returned yielded.
Advance(r, out, marks) ==
    LET h == requests[r].protocol_hash IN
    /\ PROTOCOL_INFOS' = out.infos
    /\ requests' = [requests EXCEPT ![r] =
         IF out.pc = "done"
         THEN Returned([@ EXCEPT !.calls = @ \cup marks], out.result)
         ELSE Blocked([@ EXCEPT !.calls = @ \cup marks], out.pc, out.context,
                      IF out.pc = "exec" THEN routines'[h]
                      ELSE IF out.pc = "synth" THEN synthCalls[h] + 1
                      ELSE requests[r].impl)]
    /\ checkCalls' = IF out.pc = "check" THEN [checkCalls EXCEPT ![h] = @ + 1] ELSE checkCalls
    /\ synthCalls' = IF out.pc = "synth" THEN [synthCalls EXCEPT ![h] = @ + 1] ELSE synthCalls

\* ---- the gateway: main(), src/gateway.py lines 17-42 -----------------------
CHAT == "chat"
GwHashes == Protocols \cup {CHAT, None}
GwIdle == [pc |-> "idle", protocol_hash |-> None, result |-> NoResult, calls |-> {}]
ModelResponse == [status |-> "model", message |-> "reply"]
RoutineResponse == [status |-> "routine", message |-> "output"]

\* lines 35-36: the counter after a request for an unknown hash
count_request_counts_all(counter, h) ==
    IF h # CHAT
    THEN [x \in DOMAIN counter \cup {h} |->
             (IF x \in DOMAIN counter THEN counter[x] ELSE 0) + 1]
    ELSE counter

count_request(counter, h) ==
    IF h # CHAT
    THEN [x \in DOMAIN counter \cup {h} |->
             IF x = h THEN (IF h \in DOMAIN counter THEN counter[h] ELSE 0) + 1
             ELSE counter[x]]
    ELSE counter

\* lines 30-42 counting requests for hashes the routine manager knows too
gateway_dispatch_counts_known(counter, known, h) ==
    LET counter1 == count_request(counter, h) IN
    IF h \in known
    THEN [counter |-> counter1, pc |-> "call", result |-> NoResult, create |-> FALSE]
    ELSE IF h \notin DOMAIN counter1
    THEN [counter |-> counter1, pc |-> "done", result |-> Unhandled("KeyError"),
          create |-> FALSE]
    ELSE [counter |-> counter1, pc |-> "model", result |-> NoResult,
          create |-> counter1[h] >= TRIGGER_NUM_CALLS]

\* lines 30-42, from the answer to GET /routines up to the next request sent:
\* the counter left, the call made next and whether create_and_save_routine
\* was called.  HASH_COUNTER[protocol_hash] at line 38 raises KeyError for a
\* hash that has no entry.
gateway_dispatch(counter, known, h) ==
    IF h \in known
    THEN [counter |-> counter, pc |-> "call", result |-> NoResult, create |-> FALSE]
    ELSE LET counter1 == count_request(counter, h) IN
         IF h \notin DOMAIN counter1
         THEN [counter |-> counter1, pc |-> "done", result |-> Unhandled("KeyError"),
               create |-> FALSE]
         ELSE [counter |-> counter1, pc |-> "model", result |-> NoResult,
               create |-> counter1[h] >= TRIGGER_NUM_CALLS]

\* programmer.create_and_save_routine (not part of the sources at hand): a
\* detached task is submitted; nothing is awaited.
create_and_save_routine(tasks, h) == tasks \cup {h}

\* ---- actions --------------------------------------------------------------
Init ==
    /\ PROTOCOL_INFOS = << >>
    /\ routines = << >>
    /\ requests = [r \in Threads |-> Idle]
    /\ numReceived = 0
    /\ checkCalls = [p \in Protocols |-> 0]
    /\ synthCalls = [p \in Protocols |-> 0]
    /\ HASH_COUNTER = << >>
    /\ known_hashes = {}
    /\ gwRequests = [g \in Threads |-> GwIdle]
    /\ gwReceived = 0
    /\ synthTasks = {}
    /\ createCalls = [h \in GwHashes \ {None} |-> 0]

\* main(), lines 97-103: a request arrives on a free thread
Receive(r) ==
    /\ requests[r].pc \in {"idle", "done"}
    /\ \A t \in Threads : t < r => requests[t].pc \notin {"idle", "done"}
    /\ numReceived < MaxRequests
    /\ \E h \in Hashes, s \in SourceLists, q \in Queries :
          requests' = [requests EXCEPT ![r] =
              [Idle EXCEPT !.pc = "handle_query", !.protocol_hash = h,
                           !.protocol_sources = s, !.query = q]]
    /\ numReceived' = numReceived + 1
    /\ UNCHANGED <<PROTOCOL_INFOS, routines, checkCalls, synthCalls>>
    /\ UNCHANGED gwVars

HandleQuery(r) ==
    /\ requests[r].pc = "handle_query"
    /\ routines' = routines
    /\ Advance(r, handle_query(PROTOCOL_INFOS, routines,
                               requests[r].protocol_hash, requests[r].protocol_sources), {})
    /\ UNCHANGED numReceived
    /\ UNCHANGED gwVars

\* reply_to_query returned
ReplyReturn(r) ==
    /\ requests[r].pc = "reply"
    /\ requests' = [requests EXCEPT ![r] = Returned(@, Responded)]
    /\ UNCHANGED <<PROTOCOL_INFOS, routines, numReceived, checkCalls, synthCalls>>
    /\ UNCHANGED gwVars

\* call_implementation, lines 27-41: execute_routine returned or raised
\* call_implementation without its try/except
call_implementation_uncaught(ok) == IF ok THEN ExecSucceeded ELSE Unhandled("ExecutionFailed")

call_implementation(ok) == IF ok THEN ExecSucceeded ELSE ExecFailed

ExecReturn(r) ==
    /\ requests[r].pc = "exec"
    /\ \E ok \in BOOLEAN :
          requests' = [requests EXCEPT ![r] =
              Returned([@ EXCEPT !.calls = @ \cup (IF ok THEN {} ELSE {"exec_raised"})],
                       call_implementation(ok))]
    /\ UNCHANGED <<PROTOCOL_INFOS, routines, numReceived, checkCalls, synthCalls>>
    /\ UNCHANGED gwVars

\* check_protocol_for_tools returned, lines 72-83
CheckReturn(r) ==
    /\ requests[r].pc = "check"
    /\ routines' = routines
    /\ \E verdict \in BOOLEAN :
          Advance(r, branch_on_suitability(
                        store_suitability(PROTOCOL_INFOS, requests[r].protocol_hash, verdict),
                        routines, requests[r].protocol_hash),
                  IF verdict THEN {"adequate"} ELSE {"inadequate"})
    /\ UNCHANGED numReceived
    /\ UNCHANGED gwVars

\* lines 86-94: download_and_verify_protocol returned for source number idx
\* (ok: a verified document, otherwise None)
\* the loop without the test of line 88: whatever was fetched is registered
source_fetched_unverified(infos, rts, h, sources, idx, ok) ==
    IF h \in DOMAIN infos
    THEN Outcome(infos, "done", h, Unhandled("AlreadyRegistered"))
    ELSE handle_query_suitable(register_new_protocol(infos, h, sources[idx]), rts, h)

\* the loop registering the last source offered instead of the one fetched
source_fetched_last_source(infos, rts, h, sources, idx, ok) ==
    IF ok
    THEN IF h \in DOMAIN infos
         THEN Outcome(infos, "done", h, Unhandled("AlreadyRegistered"))
         ELSE handle_query_suitable(
                  register_new_protocol(infos, h, sources[Len(sources)]), rts, h)
    ELSE IF idx < Len(sources)
         THEN Outcome(infos, "fetch", h, NoResult)
         ELSE Outcome(infos, "done", h, NoValidSource)

\* the loop writing a new record over an existing one
source_fetched_reregisters(infos, rts, h, sources, idx, ok) ==
    IF ok
    THEN handle_query_suitable(register_new_protocol(infos, h, sources[idx]), rts, h)
    ELSE IF idx < Len(sources)
         THEN Outcome(infos, "fetch", h, NoResult)
         ELSE Outcome(infos, "done", h, NoValidSource)

\* the loop sending a freshly registered protocol to the classifier
source_fetched_classifies(infos, rts, h, sources, idx, ok) ==
    IF ok
    THEN IF h \in DOMAIN infos
         THEN Outcome(infos, "done", h, Unhandled("AlreadyRegistered"))
         ELSE Outcome(register_new_protocol(infos, h, sources[idx]), "check", h, NoResult)
    ELSE IF idx < Len(sources)
         THEN Outcome(infos, "fetch", h, NoResult)
         ELSE Outcome(infos, "done", h, NoValidSource)

source_fetched(infos, rts, h, sources, idx, ok) ==
    IF ok
    THEN IF h \in DOMAIN infos
         THEN Outcome(infos, "done", h, Unhandled("AlreadyRegistered"))
         ELSE handle_query_suitable(register_new_protocol(infos, h, sources[idx]), rts, h)
    ELSE IF idx < Len(sources)
         THEN Outcome(infos, "fetch", h, NoResult)
         ELSE Outcome(infos, "done", h, NoValidSource)

FetchReturn(r) ==
    /\ requests[r].pc = "fetch"
    /\ routines' = routines
    /\ \E ok \in BOOLEAN :
          Advance(r, source_fetched(PROTOCOL_INFOS, routines, requests[r].protocol_hash,
                                    requests[r].protocol_sources, requests[r].idx, ok),
                  IF ok THEN {"verified"} ELSE {})
    /\ UNCHANGED numReceived
    /\ UNCHANGED gwVars

\* lines 53-55: write_routine_for_tools returned an implementation or raised
routine_written(infos, rts, h, ok) ==
    IF ~ok
    THEN Outcome(infos, "done", h, Unhandled("SynthesisFailed"))
    ELSE IF has_implementation(rts, h)
    THEN Outcome(infos, "done", h, Unhandled("AlreadyExists"))
    ELSE Outcome(infos, "exec", h, NoResult)

routines_written(rts, h, implementation, ok) ==
    IF ok /\ ~has_implementation(rts, h)
    THEN add_routine(rts, h, implementation)
    ELSE rts

SynthReturn(r) ==
    /\ requests[r].pc = "synth"
    /\ \E ok \in BOOLEAN :
          /\ routines' = routines_written(routines, requests[r].protocol_hash,
                                          requests[r].impl, ok)
          /\ Advance(r, routine_written(PROTOCOL_INFOS, routines,
                                        requests[r].protocol_hash, ok),
                     IF ok THEN {"written"} ELSE {"synth_raised"})
    /\ UNCHANGED numReceived
    /\ UNCHANGED gwVars

Next == \E r \in Threads :
    \/ Receive(r)
    \/ HandleQuery(r)
    \/ ReplyReturn(r)
    \/ ExecReturn(r)
    \/ CheckReturn(r)
    \/ FetchReturn(r)
    \/ SynthReturn(r)

Spec == Init /\ [][Next]_vars

\* ---- gateway actions ------------------------------------------------------
\* lines 17-21: a request arrives on a free thread
GwReceive(g) ==
    /\ gwRequests[g].pc \in {"idle", "done"}
    /\ \A t \in Threads : t < g => gwRequests[t].pc \notin {"idle", "done"}
    /\ gwReceived < MaxRequests
    /\ \E h \in GwHashes :
          gwRequests' = [gwRequests EXCEPT ![g] =
              [GwIdle EXCEPT !.pc = "main", !.protocol_hash = h]]
    /\ gwReceived' = gwReceived + 1
    /\ UNCHANGED <<HASH_COUNTER, known_hashes, synthTasks, createCalls>>
    /\ UNCHANGED vars

\* lines 23-28: post to the model handler, or ask the routine manager
GwMain(g) ==
    /\ gwRequests[g].pc = "main"
    /\ LET pc == IF gwRequests[g].protocol_hash = None THEN "model" ELSE "routines" IN
          gwRequests' = [gwRequests EXCEPT ![g].pc = pc, ![g].calls = @ \cup {pc}]
    /\ UNCHANGED <<HASH_COUNTER, known_hashes, gwReceived, synthTasks, createCalls>>
    /\ UNCHANGED vars

\* lines 28-42: GET /routines answered
GwRoutinesReturn(g) ==
    /\ gwRequests[g].pc = "routines"
    /\ LET h == gwRequests[g].protocol_hash
           out == gateway_dispatch(HASH_COUNTER, known_hashes, h) IN
          /\ HASH_COUNTER' = out.counter
          /\ gwRequests' = [gwRequests EXCEPT
                 ![g].pc = out.pc,
                 ![g].result = out.result,
                 ![g].calls = @ \cup (IF out.pc = "done" THEN {} ELSE {out.pc})
                                \cup (IF out.create THEN {"create"} ELSE {})]
          /\ synthTasks' = IF out.create THEN create_and_save_routine(synthTasks, h)
                           ELSE synthTasks
          /\ createCalls' = IF out.create THEN [createCalls EXCEPT ![h] = @ + 1]
                            ELSE createCalls
    /\ UNCHANGED <<known_hashes, gwReceived>>
    /\ UNCHANGED vars

\* lines 25 and 42: the model handler answered
GwModelReturn(g) ==
    /\ gwRequests[g].pc = "model"
    /\ gwRequests' = [gwRequests EXCEPT ![g].pc = "done", ![g].result = ModelResponse]
    /\ UNCHANGED <<HASH_COUNTER, known_hashes, gwReceived, synthTasks, createCalls>>
    /\ UNCHANGED vars

\* line 32: the routine manager answered POST /call
GwCallReturn(g) ==
    /\ gwRequests[g].pc = "call"
    /\ gwRequests' = [gwRequests EXCEPT ![g].pc = "done", ![g].result = RoutineResponse]
    /\ UNCHANGED <<HASH_COUNTER, known_hashes, gwReceived, synthTasks, createCalls>>
    /\ UNCHANGED vars

\* a synthesis task ends: the routine manager knows the hash if it succeeded
SynthTaskEnds(h) ==
    /\ h \in synthTasks
    /\ synthTasks' = synthTasks \ {h}
    /\ \E ok \in BOOLEAN : known_hashes' = IF ok THEN known_hashes \cup {h} ELSE known_hashes
    /\ UNCHANGED <<HASH_COUNTER, gwRequests, gwReceived, createCalls>>
    /\ UNCHANGED vars

GatewayNext ==
    \/ \E g \in Threads :
          \/ GwReceive(g)
          \/ GwMain(g)
          \/ GwRoutinesReturn(g)
          \/ GwModelReturn(g)
          \/ GwCallReturn(g)
    \/ \E h \in Protocols : SynthTaskEnds(h)

GatewaySpec == Init /\ [][GatewayNext]_<<vars, gwVars>>

\* ---- vocabulary of the properties ---------------------------------------
Active(r) == requests[r].pc \notin {"idle", "done"}
Stepped(r) == requests'[r] # requests[r]
Registered(p) == p \in DOMAIN PROTOCOL_INFOS
For(r, p) == requests[r].pc # "idle" /\ requests[r].protocol_hash = p
\* r reached the synthesizer through the ADEQUATE branch (line 78), not by
\* registering the protocol in this very dispatch (line 90)
InSynthAsAdequate(r, p) ==
    /\ For(r, p) /\ requests[r].pc = "synth"
    /\ "fetch" \notin requests[r].calls
    /\ Registered(p) /\ PROTOCOL_INFOS[p].suitability = ADEQUATE

\* C1 (as claimed): requests for the same registered, ADEQUATE, not yet cached
\* protocol that run concurrently make one synthesizer call between them: no
\* two of them are ever inside write_routine_for_tools at the same time.
C1_OneSynthesisPerProtocol ==
    \A p \in Protocols : \A r1, r2 \in Threads :
        InSynthAsAdequate(r1, p) /\ InSynthAsAdequate(r2, p) => r1 = r2

\* C2 (as claimed): the external suitability check is invoked at most once per
\* protocol, however many requests find its suitability UNKNOWN.
C2_OneClassificationPerProtocol ==
    \A p \in Protocols : checkCalls[p] <= 1

\* C3 (as claimed): a suitability that is ADEQUATE or INADEQUATE is never
\* written with a different value, and none goes back to UNKNOWN.
C3_SuitabilityWriteOnce ==
    [][\A p \in DOMAIN PROTOCOL_INFOS :
          PROTOCOL_INFOS[p].suitability # UNKNOWN =>
              /\ p \in DOMAIN PROTOCOL_INFOS'
              /\ PROTOCOL_INFOS'[p].suitability = PROTOCOL_INFOS[p].suitability]_vars

Count(infos, p) == IF p \in DOMAIN infos THEN infos[p].num_conversations ELSE 0
Hash(r) == requests[r].protocol_hash
Unchanged(p) ==
    /\ (p \in DOMAIN PROTOCOL_INFOS) = (p \in DOMAIN PROTOCOL_INFOS')
    /\ p \in DOMAIN PROTOCOL_INFOS => PROTOCOL_INFOS'[p] = PROTOCOL_INFOS[p]
    /\ (p \in DOMAIN routines) = (p \in DOMAIN routines')
    /\ p \in DOMAIN routines => routines'[p] = routines[p]

\* C4: once a routine exists for a protocol it is never removed or replaced, no
\* synthesizer call is started for that protocol any more, every dispatch that
\* begins from then on goes straight to executing the stored routine, and no
\* request for the protocol is handed to the responder.
C4_RoutineIsTerminal ==
    [][\A p \in DOMAIN routines :
          /\ p \in DOMAIN routines' /\ routines'[p] = routines[p]
          /\ synthCalls'[p] = synthCalls[p]
          /\ \A r \in Threads :
                /\ (Stepped(r) /\ requests[r].pc = "handle_query" /\ Hash(r) = p) =>
                      /\ requests'[r].pc = "exec"
                      /\ requests'[r].impl = routines[p]
                      /\ requests'[r].calls = {"exec"}
                      /\ Unchanged(p)
                /\ (Stepped(r) /\ Hash(r) = p) => requests'[r].pc # "reply"]_vars

C4_Witness ==
    \E r \in Threads : \E p \in DOMAIN routines :
        /\ requests[r].pc = "done" /\ Hash(r) = p
        /\ requests[r].calls = {"exec"}
        /\ requests[r].impl = routines[p]
        /\ requests[r].result = ExecSucceeded
        /\ synthCalls[p] = 1

\* C5 (as claimed): a dispatch that finds the stored suitability INADEQUATE
\* returns 'Protocol not suitable.' and does not call the classifier.
C5_InadequateIsRefused ==
    [][\A r \in Threads :
          (/\ Stepped(r) /\ requests[r].pc = "handle_query"
           /\ Hash(r) \in DOMAIN PROTOCOL_INFOS
           /\ PROTOCOL_INFOS[Hash(r)].suitability = INADEQUATE) =>
              /\ requests'[r].pc = "done"
              /\ requests'[r].result = NotSuitable
              /\ checkCalls' = checkCalls]_vars

\* C6: a request without a protocol hash is handed to the responder with no
\* protocol context and returns its answer; none of its steps touches the
\* registry or the routine store or starts a classifier, synthesizer, fetch or
\* routine run.
C6_NullHashGoesToResponder ==
    [][\A r \in Threads :
          (Stepped(r) /\ Active(r) /\ Hash(r) = None) =>
              /\ UNCHANGED <<PROTOCOL_INFOS, routines, checkCalls, synthCalls>>
              /\ requests'[r].calls = {"reply"}
              /\ requests[r].pc = "handle_query" =>
                    requests'[r].pc = "reply" /\ requests'[r].context = None
              /\ requests[r].pc # "handle_query" =>
                    /\ requests[r].pc = "reply"
                    /\ requests'[r].pc = "done"
                    /\ requests'[r].result = Responded]_vars

C6_Witness ==
    \E r \in Threads :
        /\ requests[r].pc = "done" /\ Hash(r) = None
        /\ requests[r].result = Responded
        /\ requests[r].context = None
        /\ DOMAIN routines # {}

\* The step of request r in which the dispatcher enters handle_query_suitable:
\* line 78 (stored or just stored verdict ADEQUATE) or line 90 (just registered).
EntersSuitable(r) ==
    \/ /\ requests[r].pc = "handle_query"
       /\ Hash(r) \notin DOMAIN routines
       /\ Hash(r) \in DOMAIN PROTOCOL_INFOS
       /\ PROTOCOL_INFOS[Hash(r)].suitability = ADEQUATE
    \/ requests[r].pc = "check" /\ "adequate" \in requests'[r].calls
    \/ /\ requests[r].pc = "fetch" /\ "verified" \in requests'[r].calls
       /\ Hash(r) \notin DOMAIN PROTOCOL_INFOS

\* The step in which, by the claim, the query is handled for its protocol: a
\* routine exists or the suitability is ADEQUATE.
HandledAsClaimed(r) ==
    \/ /\ requests[r].pc = "handle_query"
       /\ \/ Hash(r) \in DOMAIN routines
          \/ /\ Hash(r) \in DOMAIN PROTOCOL_INFOS
             /\ PROTOCOL_INFOS[Hash(r)].suitability = ADEQUATE
    \/ requests[r].pc = "check" /\ "adequate" \in requests'[r].calls

CountsNeverDecrease ==
    \A p \in Protocols :
        /\ Count(PROTOCOL_INFOS', p) >= Count(PROTOCOL_INFOS, p)
        /\ p \in DOMAIN PROTOCOL_INFOS => p \in DOMAIN PROTOCOL_INFOS'

CountStep(r, counted) ==
    (Stepped(r) /\ Active(r) /\ Hash(r) # None) =>
        Count(PROTOCOL_INFOS', Hash(r)) =
            Count(PROTOCOL_INFOS, Hash(r)) + (IF counted THEN 1 ELSE 0)

\* C7 (as claimed): the count never decreases and a dispatch adds one to it
\* exactly when a routine exists for the protocol or its suitability is ADEQUATE.
C7_CountedIffAdequateOrRoutine ==
    [][CountsNeverDecrease /\ \A r \in Threads : CountStep(r, HandledAsClaimed(r))]_vars

\* C7 (amended): the count never decreases and a dispatch adds one to it exactly
\* when it enters handle_query_suitable: no routine existed when the dispatch
\* began and either the suitability is ADEQUATE or the dispatch has just
\* registered the protocol.  A dispatch answered from an existing routine at
\* line 65, and one that ends in 'Protocol not suitable.' or 'No valid protocol
\* source provided.', leaves it unchanged.
C7_CountedIffSuitablePath ==
    [][CountsNeverDecrease /\ \A r \in Threads : CountStep(r, EntersSuitable(r))]_vars

C7_Witness ==
    \E r1, r2 \in Threads : \E p \in DOMAIN routines :
        /\ r1 # r2 /\ Hash(r1) = p /\ Hash(r2) = p
        /\ requests[r1].pc = "done" /\ "verified" \in requests[r1].calls
        /\ requests[r2].pc = "done" /\ requests[r2].calls = {"exec"}
        /\ Count(PROTOCOL_INFOS, p) = 1

\* C8 (as claimed): a request whose synthesizer call failed is answered by the
\* fallback responder, and stores no routine.
C8_SynthesisFailureFallsBack ==
    \A r \in Threads :
        (requests[r].pc = "done" /\ "synth_raised" \in requests[r].calls) =>
            /\ requests[r].result = Responded
            /\ "written" \notin requests[r].calls

\* C9: when the routine run ends, raising or not, call_implementation returns a
\* structured result ('error' / 'Failed to execute routine.' when it raised);
\* nothing propagates, the responder is not called, and the registry and the
\* routine store are as they were.
C9_ExecutionFailureIsCaught ==
    [][\A r \in Threads :
          (Stepped(r) /\ requests[r].pc = "exec") =>
              /\ requests'[r].pc = "done"
              /\ requests'[r].result =
                    IF "exec_raised" \in requests'[r].calls THEN ExecFailed ELSE ExecSucceeded
              /\ "reply" \notin requests'[r].calls
              /\ UNCHANGED <<PROTOCOL_INFOS, routines>>]_vars

C9_Witness ==
    \E r \in Threads :
        /\ requests[r].pc = "done"
        /\ "exec_raised" \in requests[r].calls
        /\ requests[r].result = ExecFailed
        /\ Hash(r) \in DOMAIN routines

\* C10: for a protocol hash with no routine and no record, a dispatch with an
\* empty source list returns 'No valid protocol source provided.' at once, and
\* a fetch that yields no verified document moves to the next source or, after
\* the last one, returns that error; in both the registry and the routine store
\* stay as they were and no classifier, synthesizer or responder call is made.
C10_NoValidSource ==
    [][\A r \in Threads :
          (Stepped(r) /\ Active(r) /\ Hash(r) # None) =>
              /\ (/\ requests[r].pc = "handle_query"
                  /\ Hash(r) \notin DOMAIN routines
                  /\ Hash(r) \notin DOMAIN PROTOCOL_INFOS
                  /\ requests[r].protocol_sources = << >>) =>
                     /\ requests'[r].pc = "done"
                     /\ requests'[r].result = NoValidSource
                     /\ requests'[r].calls = {}
                     /\ UNCHANGED <<PROTOCOL_INFOS, routines, checkCalls, synthCalls>>
              /\ (requests[r].pc = "fetch" /\ "verified" \notin requests'[r].calls) =>
                     /\ requests'[r].calls = {"fetch"}
                     /\ UNCHANGED <<PROTOCOL_INFOS, routines, checkCalls, synthCalls>>
                     /\ IF requests[r].idx = Len(requests[r].protocol_sources)
                        THEN requests'[r].pc = "done" /\ requests'[r].result = NoValidSource
                        ELSE requests'[r].pc = "fetch" /\ requests'[r].idx = requests[r].idx + 1]_vars

C10_Witness ==
    \E r1, r2 \in Threads : \E p \in Protocols :
        /\ r1 # r2 /\ Hash(r1) = p /\ Hash(r2) = p
        /\ p \notin DOMAIN PROTOCOL_INFOS /\ p \notin DOMAIN routines
        /\ requests[r1].pc = "done" /\ requests[r1].result = NoValidSource
        /\ requests[r1].calls = {}
        /\ requests[r2].pc = "done" /\ requests[r2].result = NoValidSource
        /\ requests[r2].calls = {"fetch"}

\* The step in which download_and_verify_protocol hands request r a document.
Verifies(r) ==
    Stepped(r) /\ requests[r].pc = "fetch" /\ "verified" \in requests'[r].calls
\* ... and the protocol has no record yet, so that line 89 registers it.
Registers(r) == Verifies(r) /\ Hash(r) \notin DOMAIN PROTOCOL_INFOS

\* C11: the fetch loop starts at the first source offered and moves to the next
\* one only after a fetch that yielded no document; the protocol is registered
\* with the source whose fetch yielded the document and no further source is
\* fetched; a registered protocol is never fetched again and the source on
\* record never changes.
C11_FirstVerifiedSourceIsKept ==
    [][/\ \A p \in DOMAIN PROTOCOL_INFOS :
             /\ p \in DOMAIN PROTOCOL_INFOS'
             /\ PROTOCOL_INFOS'[p].source = PROTOCOL_INFOS[p].source
       /\ \A r \in Threads :
             (Stepped(r) /\ Active(r) /\ Hash(r) # None) =>
                 /\ (requests[r].pc = "handle_query" /\ requests'[r].pc = "fetch") =>
                        /\ requests'[r].idx = 1
                        /\ Hash(r) \notin DOMAIN PROTOCOL_INFOS
                 /\ (requests[r].pc = "fetch" /\ requests'[r].pc = "fetch") =>
                        /\ requests'[r].idx = requests[r].idx + 1
                        /\ "verified" \notin requests'[r].calls
                 /\ Registers(r) =>
                        /\ PROTOCOL_INFOS'[Hash(r)].source =
                               requests[r].protocol_sources[requests[r].idx]
                        /\ requests'[r].pc # "fetch"]_vars

C11_Witness ==
    \E r1, r2 \in Threads : \E p \in DOMAIN PROTOCOL_INFOS :
        /\ r1 # r2 /\ Hash(r1) = p /\ Hash(r2) = p
        /\ PROTOCOL_INFOS[p].source = "S2"
        /\ requests[r1].pc = "done" /\ "verified" \in requests[r1].calls
        /\ requests[r1].result = ExecSucceeded
        /\ requests[r2].pc = "done" /\ requests[r2].calls = {"exec"}

C17_RecordIffVerified ==
    [][/\ \A p \in Protocols :
             (p \notin DOMAIN PROTOCOL_INFOS /\ p \in DOMAIN PROTOCOL_INFOS') <=>
                 \E r \in Threads : Hash(r) = p /\ Registers(r)
       /\ \A r \in Threads :
             /\ Registers(r) => PROTOCOL_INFOS'[Hash(r)].suitability = UNKNOWN
             /\ (Verifies(r) /\ ~Registers(r)) =>
                    PROTOCOL_INFOS'[Hash(r)] = PROTOCOL_INFOS[Hash(r)]]_vars

C17_Witness ==
    \E r1, r2 \in Threads : \E p \in DOMAIN PROTOCOL_INFOS :
        /\ r1 # r2 /\ Hash(r1) = p /\ Hash(r2) = p
        /\ "verified" \in requests[r1].calls /\ "synth" \in requests[r1].calls
        /\ requests[r2].pc = "done" /\ "verified" \in requests[r2].calls
        /\ requests[r2].result = Unhandled("AlreadyRegistered")

C19_SynthesisIsRetried ==
    [][\A r \in Threads :
          (Stepped(r) /\ Active(r)) =>
              /\ (requests[r].pc = "synth" /\ "synth_raised" \in requests'[r].calls) =>
                    /\ UNCHANGED <<PROTOCOL_INFOS, routines>>
                    /\ Hash(r) \in DOMAIN PROTOCOL_INFOS
                    /\ requests'[r].pc = "done"
              /\ (/\ EntersSuitable(r) /\ requests[r].pc # "fetch"
                  /\ Hash(r) \notin DOMAIN routines
                  /\ synthCalls[Hash(r)] >= 1) =>
                    /\ requests'[r].pc = "synth"
                    /\ synthCalls'[Hash(r)] = synthCalls[Hash(r)] + 1]_vars

C19_Witness ==
    \E r1, r2 \in Threads : \E p \in DOMAIN PROTOCOL_INFOS :
        /\ r1 # r2 /\ Hash(r1) = p /\ Hash(r2) = p
        /\ requests[r1].pc = "done" /\ "synth_raised" \in requests[r1].calls
        /\ requests[r2].pc = "synth" /\ "adequate" \in requests[r2].calls
        /\ p \notin DOMAIN routines
        /\ synthCalls[p] = 2

\* C20: every protocol that has a routine has a record in the registry.
C20_RoutineImpliesRecord ==
    DOMAIN routines \subseteq DOMAIN PROTOCOL_INFOS

C20_Witness ==
    /\ Cardinality(DOMAIN routines) = 2
    /\ DOMAIN routines \subseteq DOMAIN PROTOCOL_INFOS

\* ---- the gateway's properties (checked under GatewaySpec) ----------------
allVars == <<vars, gwVars>>
GwStepped(g) == gwRequests'[g] # gwRequests[g]
GwHash(g) == gwRequests[g].protocol_hash
GwCounter(h) == IF h \in DOMAIN HASH_COUNTER THEN HASH_COUNTER[h] ELSE 0

\* C13 (as claimed): a request for 'chat' that the routine manager does not
\* know ends with the model handler's response; 'chat' gets no counter entry
\* and create_and_save_routine is never called for it.
C13_ChatGoesToModelHandler ==
    /\ CHAT \notin DOMAIN HASH_COUNTER
    /\ createCalls[CHAT] = 0
    /\ \A g \in Threads :
          (/\ gwRequests[g].pc = "done" /\ GwHash(g) = CHAT
           /\ "call" \notin gwRequests[g].calls) =>
              gwRequests[g].result = ModelResponse

\* C14 (as claimed): create_and_save_routine is called for a hash when its
\* counter reaches TRIGGER_NUM_CALLS, not before, and never a second time.
C14_SynthesisTriggeredOnce ==
    \A h \in Protocols :
        createCalls[h] = IF GwCounter(h) >= TRIGGER_NUM_CALLS THEN 1 ELSE 0

\* C15 (as claimed): whenever the routine manager's answer does not contain the
\* request's hash, the request goes on to the model handler.
C15_UnknownHashIsForwarded ==
    [][\A g \in Threads :
          (/\ GwStepped(g) /\ gwRequests[g].pc = "routines"
           /\ GwHash(g) \notin known_hashes) =>
              gwRequests'[g].pc = "model"]_allVars

\* C16: a request whose hash the routine manager reports is posted to the
\* routine manager's /call and answered with its response: the model handler
\* is not called, HASH_COUNTER is not changed and create_and_save_routine is
\* not called.  A request without a hash is posted to the model handler and
\* answered with its response: the routine manager is not asked and
\* HASH_COUNTER is not changed.
C16_KnownToRoutineManagerNoneToModel ==
    [][\A g \in Threads :
          (GwStepped(g) /\ gwRequests[g].pc \notin {"idle", "done"}) =>
              /\ (gwRequests[g].pc = "routines" /\ GwHash(g) \in known_hashes) =>
                    /\ gwRequests'[g].pc = "call"
                    /\ gwRequests'[g].calls = {"routines", "call"}
                    /\ UNCHANGED <<HASH_COUNTER, synthTasks, createCalls>>
              /\ gwRequests[g].pc = "call" =>
                    /\ gwRequests'[g].pc = "done"
                    /\ gwRequests'[g].result = RoutineResponse
                    /\ gwRequests'[g].calls = {"routines", "call"}
                    /\ UNCHANGED <<HASH_COUNTER, synthTasks, createCalls, known_hashes>>
              /\ GwHash(g) = None =>
                    /\ gwRequests'[g].calls = {"model"}
                    /\ UNCHANGED <<HASH_COUNTER, synthTasks, createCalls, known_hashes>>
                    /\ IF gwRequests[g].pc = "main"
                       THEN gwRequests'[g].pc = "model"
                       ELSE /\ gwRequests[g].pc = "model"
                            /\ gwRequests'[g].pc = "done"
                            /\ gwRequests'[g].result = ModelResponse]_allVars

C16_Witness ==
    \E g \in Threads : \E h \in known_hashes :
        /\ GwHash(g) = h /\ gwRequests[g].pc = "done"
        /\ gwRequests[g].result = RoutineResponse
        /\ gwRequests[g].calls = {"routines", "call"}
        /\ GwCounter(h) = TRIGGER_NUM_CALLS
        /\ createCalls[h] = 1

\* ---- properties of the whole state --------------------------------------
\* C21 (as claimed): in every reachable state of the server, no protocol whose
\* stored suitability is INADEQUATE has a routine in the routine cache.
C21_InadequateHasNoRoutine ==
    \A p \in Protocols :
        (Registered(p) /\ PROTOCOL_INFOS[p].suitability = INADEQUATE) =>
            ~has_implementation(routines, p)

\* ---- either deployment ---------------------------------------------------
\* The gateway is an alternate dispatcher: a run serves requests either with
\* agents/server/main.py or with gateway.py, and the two share no state.
ServerReceive(r) == gwReceived = 0 /\ Receive(r)
GatewayReceive(g) == numReceived = 0 /\ GwReceive(g)

DeploymentNext ==
    \/ \E r \in Threads :
          \/ ServerReceive(r)
          \/ HandleQuery(r)
          \/ ReplyReturn(r)
          \/ ExecReturn(r)
          \/ CheckReturn(r)
          \/ FetchReturn(r)
          \/ SynthReturn(r)
    \/ \E g \in Threads :
          \/ GatewayReceive(g)
          \/ GwMain(g)
          \/ GwRoutinesReturn(g)
          \/ GwModelReturn(g)
          \/ GwCallReturn(g)
    \/ \E h \in Protocols : SynthTaskEnds(h)

DeploymentSpec == Init /\ [][DeploymentNext]_allVars

CounterUnchanged(h) ==
    /\ (h \in DOMAIN HASH_COUNTER) = (h \in DOMAIN HASH_COUNTER')
    /\ h \in DOMAIN HASH_COUNTER => HASH_COUNTER'[h] = HASH_COUNTER[h]

\* C22: a step changes the registry record (source, suitability, count) or the
\* routine-cache entry of a protocol only if it is a step of a server dispatch
\* for that protocol, and changes the gateway's counter of an identifier only
\* if it is a step of a gateway request for that identifier.
C22_OnlyTheRequestedProtocolChanges ==
    [][/\ \A p \in Protocols :
             ~Unchanged(p) =>
                 \E r \in Threads : Stepped(r) /\ requests'[r].protocol_hash = p
       /\ \A h \in GwHashes \ {None} :
             ~CounterUnchanged(h) =>
                 \E g \in Threads :
                     GwStepped(g) /\ gwRequests'[g].protocol_hash = h]_allVars

\* Both protocols have state, and a dispatch for one of them has just stored
\* its routine next to the other's record and routine.
C22_Witness ==
    \E r \in Threads : \E q \in Protocols :
        /\ requests[r].pc = "exec" /\ "written" \in requests[r].calls
        /\ q # Hash(r)
        /\ has_implementation(routines, Hash(r))
        /\ Registered(q) /\ has_implementation(routines, q)
        /\ Count(PROTOCOL_INFOS, q) >= 1
====
